---- MODULE Spec2Model ----
(***************************************************************************)
(* A model of src/app.py: the answer-resolution core (find_best_match,     *)
(* get_openai_response, get_agent_response) and the Streamlit script       *)
(* main() that drives it.                                                  *)
(*                                                                         *)
(* Strings.  A Python str is modelled as a sequence of pieces joined by    *)
(* single spaces (" ".join(pieces)); a piece is a word without whitespace  *)
(* or the empty string.  <<>> is "", <<"", "">> is " ", <<"a", "", "b">>   *)
(* is "a  b".  str.split() is then the non-empty pieces, and the           *)
(* characters of a word are given by Chars.  Answers, tags and error       *)
(* details are never taken apart by the code and are plain TLA+ strings.   *)
(*                                                                         *)
(* Optional values.  None is <<>> and a present value x is <<x>>; the      *)
(* tuple (answer, score) of find_best_match is <<answer, score>>.          *)
(*                                                                         *)
(* Scores.  rapidfuzz computes 100 - 100 * dist / lensum in floating       *)
(* point; the model keeps the exact rational [num, den] in lowest terms.   *)
(***************************************************************************)
EXTENDS Integers, Sequences, FiniteSets, TLC

\* Bounds of the model.
MaxQueryLen == 2
MaxTurns == 1

----------------------------------------------------------------------------
\* The literal the module global PREDEFINED_QA is bound to (src/app.py:11-32)

InitialQA ==
    << [question |-> <<"What", "does", "the", "eligibility", "verification", "agent", "(EVA)", "do?">>,
        answer |-> "EVA automates the process of verifying a patient's eligibility and benefits information in real-time, eliminating manual data entry errors and reducing claim rejections."],
       [question |-> <<"What", "does", "the", "claims", "processing", "agent", "(CAM)", "do?">>,
        answer |-> "CAM streamlines the submission and management of claims, improving accuracy, reducing manual intervention, and accelerating reimbursements."],
       [question |-> <<"How", "does", "the", "payment", "posting", "agent", "(PHIL)", "work?">>,
        answer |-> "PHIL automates the posting of payments to patient accounts, ensuring fast, accurate reconciliation of payments and reducing administrative burden."],
       [question |-> <<"Tell", "me", "about", "Thoughtful", "AI's", "Agents.">>,
        answer |-> "Thoughtful AI provides a suite of AI-powered automation agents designed to streamline healthcare processes. These include Eligibility Verification (EVA), Claims Processing (CAM), and Payment Posting (PHIL), among others."],
       [question |-> <<"What", "are", "the", "benefits", "of", "using", "Thoughtful", "AI's", "agents?">>,
        answer |-> "Using Thoughtful AI's Agents can significantly reduce administrative costs, improve operational efficiency, and reduce errors in critical processes like claims management and payment posting."] >>

\* The code points of each word the model uses (the corpus words and the
\* words queries are built from).
Chars(t) ==
    CASE t = "What" -> <<87, 104, 97, 116>>
    [] t = "does" -> <<100, 111, 101, 115>>
    [] t = "the" -> <<116, 104, 101>>
    [] t = "eligibility" -> <<101, 108, 105, 103, 105, 98, 105, 108, 105, 116, 121>>
    [] t = "verification" -> <<118, 101, 114, 105, 102, 105, 99, 97, 116, 105, 111, 110>>
    [] t = "agent" -> <<97, 103, 101, 110, 116>>
    [] t = "(EVA)" -> <<40, 69, 86, 65, 41>>
    [] t = "do?" -> <<100, 111, 63>>
    [] t = "claims" -> <<99, 108, 97, 105, 109, 115>>
    [] t = "processing" -> <<112, 114, 111, 99, 101, 115, 115, 105, 110, 103>>
    [] t = "(CAM)" -> <<40, 67, 65, 77, 41>>
    [] t = "How" -> <<72, 111, 119>>
    [] t = "payment" -> <<112, 97, 121, 109, 101, 110, 116>>
    [] t = "posting" -> <<112, 111, 115, 116, 105, 110, 103>>
    [] t = "(PHIL)" -> <<40, 80, 72, 73, 76, 41>>
    [] t = "work?" -> <<119, 111, 114, 107, 63>>
    [] t = "Tell" -> <<84, 101, 108, 108>>
    [] t = "me" -> <<109, 101>>
    [] t = "about" -> <<97, 98, 111, 117, 116>>
    [] t = "Thoughtful" -> <<84, 104, 111, 117, 103, 104, 116, 102, 117, 108>>
    [] t = "AI's" -> <<65, 73, 39, 115>>
    [] t = "Agents." -> <<65, 103, 101, 110, 116, 115, 46>>
    [] t = "are" -> <<97, 114, 101>>
    [] t = "benefits" -> <<98, 101, 110, 101, 102, 105, 116, 115>>
    [] t = "of" -> <<111, 102>>
    [] t = "using" -> <<117, 115, 105, 110, 103>>
    [] t = "agents?" -> <<97, 103, 101, 110, 116, 115, 63>>
    [] t = "weather" -> <<119, 101, 97, 116, 104, 101, 114>>
    [] t = "xxxxx" -> <<120, 120, 120, 120, 120>>

----------------------------------------------------------------------------
\* Python str operations on the piece representation

\* not s: the empty string.  <<>> is the only representation of "" the
\* model uses.
IsEmptyStr(s) == s = <<>>

\* s.split(): the whitespace-separated words of s, as a set-ready sequence.
Split(s) == SelectSeq(s, LAMBDA p : p # "")

\* not s.strip(): s holds nothing but whitespace.
IsBlankAfterStrip(s) == Split(s) = <<>>

\* set(s.split())
TokenSet(s) == {Split(s)[i] : i \in 1..Len(Split(s))}

\* a < b for two words, by code points (Python's str ordering).
RECURSIVE CharsLess(_, _)
CharsLess(a, b) ==
    IF b = <<>> THEN FALSE
    ELSE IF a = <<>> THEN TRUE
    ELSE IF Head(a) # Head(b) THEN Head(a) < Head(b)
    ELSE CharsLess(Tail(a), Tail(b))

\* sorted(S) for a set of words
RECURSIVE Sorted(_)
Sorted(S) ==
    IF S = {} THEN <<>>
    ELSE LET m == CHOOSE x \in S : \A y \in S \ {x} : CharsLess(Chars(x), Chars(y))
         IN <<m>> \o Sorted(S \ {m})

\* " ".join(words) as a sequence of code points
RECURSIVE JoinChars(_)
JoinChars(words) ==
    IF words = <<>> THEN <<>>
    ELSE IF Len(words) = 1 THEN Chars(words[1])
    ELSE Chars(words[1]) \o <<32>> \o JoinChars(Tail(words))

----------------------------------------------------------------------------
\* Exact rational scores

RECURSIVE GCD(_, _)
GCD(a, b) == IF b = 0 THEN a ELSE GCD(b, a % b)

Rat(n, d) == LET g == GCD(n, d) IN [num |-> n \div g, den |-> d \div g]

RatGeq(a, b) == a.num * b.den >= b.num * a.den
RatGt(a, b) == a.num * b.den > b.num * a.den
RatMax(a, b) == IF RatGeq(a, b) THEN a ELSE b
RatOfInt(n) == [num |-> n, den |-> 1]

\* f"{score:.0f}": the nearest integer, ties to the even one
FormatScore(score) ==
    LET fl == score.num \div score.den
        twice == 2 * (score.num % score.den)
    IN IF twice < score.den THEN fl
       ELSE IF twice > score.den THEN fl + 1
       ELSE IF fl % 2 = 0 THEN fl ELSE fl + 1

----------------------------------------------------------------------------
\* rapidfuzz.fuzz.token_set_ratio, the scorer named at src/app.py:58

\* One row of the longest-common-subsequence table.  A row is a sequence
\* whose element j + 1 is the LCS length of the characters of a read so far
\* and b[1..j].  The character x just read is either left unmatched
\* (prev[j + 1]) or matched with its last occurrence b[k], k <= j
\* (prev[k] + 1: rows never decrease, so the last occurrence is the best).
LcsRow(prev, x, b) ==
    LET P == {k \in 1..Len(b) : b[k] = x}
    IN <<>> \o [j1 \in 1..(Len(b) + 1) |->
                  LET K == {k \in P : k < j1}
                  IN IF K = {} THEN prev[j1]
                     ELSE LET last == CHOOSE k \in K : \A o \in K : o <= k
                          IN IF prev[last] + 1 > prev[j1] THEN prev[last] + 1
                             ELSE prev[j1]]

RECURSIVE LcsFrom(_, _, _, _)
LcsFrom(a, b, i, prev) ==
    IF i > Len(a) THEN prev[Len(b) + 1]
    ELSE LET row == LcsRow(prev, a[i], b)
         IN IF Len(row) = Len(prev) THEN LcsFrom(a, b, i + 1, row) ELSE 0

\* Length of the longest common subsequence of a and b
LCS(a, b) == LcsFrom(a, b, 1, <<>> \o [j1 \in 1..(Len(b) + 1) |-> 0])

\* Indel distance: insertions and deletions needed to turn a into b
indel_distance(a, b) == Len(a) + Len(b) - 2 * LCS(a, b)

\* 100 - 100 * dist / lensum
norm_distance(dist, lensum) ==
    IF lensum > 0 THEN Rat(100 * (lensum - dist), lensum) ELSE RatOfInt(100)

\* the three ratios of token_set_ratio from the lengths of the joined
\* difference and intersection strings and the distance of the differences
LengthScore(ab_len, ba_len, sect_len, dist) ==
    LET sep == IF sect_len # 0 THEN 1 ELSE 0
        sect_ab_len == sect_len + sep + ab_len
        sect_ba_len == sect_len + sep + ba_len
    IN IF sect_len = 0 THEN norm_distance(dist, sect_ab_len + sect_ba_len)
       ELSE RatMax(norm_distance(dist, sect_ab_len + sect_ba_len),
                   RatMax(norm_distance(sep + ab_len, sect_len + sect_ab_len),
                          norm_distance(sep + ba_len, sect_len + sect_ba_len)))

\* diff_ab_joined, diff_ba_joined and the joined intersection, as characters
JoinedScore(diff_ab_joined, diff_ba_joined, sect_joined) ==
    LengthScore(Len(diff_ab_joined), Len(diff_ba_joined), Len(sect_joined),
                indel_distance(diff_ab_joined, diff_ba_joined))

TokenSetScore(tokens_a, tokens_b) ==
    IF tokens_a = {} \/ tokens_b = {} THEN RatOfInt(0)
    ELSE IF /\ tokens_a \cap tokens_b # {}
            /\ (tokens_a \ tokens_b = {} \/ tokens_b \ tokens_a = {})
    THEN RatOfInt(100)
    ELSE JoinedScore(JoinChars(Sorted(tokens_a \ tokens_b)),
                     JoinChars(Sorted(tokens_b \ tokens_a)),
                     JoinChars(Sorted(tokens_a \cap tokens_b)))

token_set_ratio(s1, s2) ==
    IF IsEmptyStr(s1) \/ IsEmptyStr(s2) THEN RatOfInt(0)
    ELSE TokenSetScore(TokenSet(s1), TokenSet(s2))

----------------------------------------------------------------------------
\* The queries the model draws from

QueryWords == {"Thoughtful", "weather"}

\* every string of at most MaxQueryLen pieces over the query words and the
\* empty piece; <<"">> is left out, being "" again
GeneratedQueries ==
    UNION {[1..n -> QueryWords \cup {""}] : n \in 0..MaxQueryLen} \ {<<"">>}

\* the corpus questions themselves
CorpusQueries == {InitialQA[i].question : i \in 1..Len(InitialQA)}

\* queries at the threshold: one scoring exactly 70, one scoring 900/13
\* (69.2...), and one whose best score of 100 is shared by three entries
BoundaryQueries ==
    {<<"payment", "xxxxx">>, <<"the", "agent", "weather">>, <<"does">>}

Queries == GeneratedQueries \cup CorpusQueries \cup BoundaryQueries


\* The scores of every query of the model against every corpus question,
\* computed once
ScoreCache ==
    {<<q, {<<c, token_set_ratio(q, c)>> : c \in CorpusQueries}>> : q \in Queries}

\* scorer=fuzz.token_set_ratio (src/app.py:58), read from ScoreCache where
\* the pair is in it
scorer(q, c) ==
    IF q \in Queries /\ c \in CorpusQueries
    THEN LET row == (CHOOSE e \in ScoreCache : e[1] = q)[2]
         IN (CHOOSE e \in row : e[1] = c)[2]
    ELSE token_set_ratio(q, c)

----------------------------------------------------------------------------
\* rapidfuzz.process.extractOne (src/app.py:55-59)

\* a later choice of equal score replaces the best one
BetterOrEqual(score, best) == best = <<>> \/ RatGeq(score, best[1].score)

\* score > result_score: a later choice replaces the best one only with a
\* strictly greater score
Better(score, best) == best = <<>> \/ RatGt(score, best[1].score)

\* The loop over the choices from the i-th on: best is the result so far
\* (None or [choice, score, index]) and n the number of scorer calls made.
\* A score of 100 ends the loop.
RECURSIVE extractOneFrom(_, _, _, _, _)
RECURSIVE extractOneStep(_, _, _, _, _, _)
extractOneStep(query, choices, i, best, n, score) ==
    IF Better(score, best)
    THEN IF score = RatOfInt(100)
         THEN [result |-> <<[choice |-> choices[i], score |-> score, index |-> i]>>,
               scored |-> n + 1]
         ELSE extractOneFrom(query, choices, i + 1,
                             <<[choice |-> choices[i], score |-> score, index |-> i]>>,
                             n + 1)
    ELSE extractOneFrom(query, choices, i + 1, best, n + 1)

extractOneFrom(query, choices, i, best, n) ==
    IF i > Len(choices) THEN [result |-> best, scored |-> n]
    ELSE extractOneStep(query, choices, i, best, n, scorer(query, choices[i]))

extractOne(query, choices) == extractOneFrom(query, choices, 1, <<>>, 0)

----------------------------------------------------------------------------
\* find_best_match (src/app.py:38-70)

\* the loop of lines 66-68 without its test: the first entry's answer
AnswerLoopNoTest(qa, matched_question, score, i) ==
    IF i > Len(qa) THEN <<>> ELSE <<qa[i].answer, score>>

\* the loop of lines 66-68: the answer of the first entry whose question is
\* the matched one, as the tuple (answer, score); None when the loop ends
\* without one (line 70)
RECURSIVE AnswerLoop(_, _, _, _)
AnswerLoop(qa, matched_question, score, i) ==
    IF i > Len(qa) THEN <<>>
    ELSE IF qa[i].question = matched_question THEN <<qa[i].answer, score>>
    ELSE AnswerLoop(qa, matched_question, score, i + 1)

\* the guard of line 48
IsBlankQuery(user_question) ==
    IsEmptyStr(user_question) \/ IsBlankAfterStrip(user_question)

\* line 61 with > in place of >=
AcceptedStrict(result, threshold) ==
    result # <<>> /\ RatGt(result[1].score, RatOfInt(threshold))

\* line 61: result and result[1] >= FUZZY_THRESHOLD
Accepted(result, threshold) ==
    result # <<>> /\ RatGeq(result[1].score, RatOfInt(threshold))

\* questions = [qa["question"] for qa in PREDEFINED_QA] (line 52)
Questions(qa) == [i \in 1..Len(qa) |-> qa[i].question]

\* lines 61-70 with extractOne's result r
AcceptOrReject(r, qa, threshold) ==
    [value |-> IF Accepted(r.result, threshold)
               THEN AnswerLoop(qa, r.result[1].choice, r.result[1].score, 1)
               ELSE <<>>,
     scored |-> r.scored]

\* lines 51-70, the part after the blank guard
MatchNonBlank(user_question, qa, threshold) ==
    AcceptOrReject(extractOne(user_question, Questions(qa)), qa, threshold)

\* find_best_match without the guard of lines 48-49
find_best_match_unguarded(user_question, qa, threshold) ==
    MatchNonBlank(user_question, qa, threshold)

\* value is what the function returns, scored the number of scorer calls it
\* made
find_best_match(user_question, qa, threshold) ==
    IF IsBlankQuery(user_question) THEN [value |-> <<>>, scored |-> 0]
    ELSE MatchNonBlank(user_question, qa, threshold)

----------------------------------------------------------------------------
\* get_openai_response (src/app.py:73-100)

\* What the service call of lines 85-97 can do: hand back content, or raise
\* with the text str(e) (network, authentication, timeout, malformed
\* response)
ErrorDetails ==
    {"Connection error.", "Incorrect API key provided.", "Request timed out.",
     "list index out of range"}

ServiceFailures == {[ok |-> FALSE, text |-> d] : d \in ErrorDetails}

ServiceSuccesses == {[ok |-> TRUE, text |-> "Happy to help!"]}

PLACEHOLDER_KEY == "your_openai_api_key_here"

\* os.getenv("OPENAI_API_KEY"): None, or a string
Credentials == {<<>>, <<"">>, <<PLACEHOLDER_KEY>>, <<"sk-live">>}

\* line 149 without the placeholder test
IsBadKeyNoPlaceholder(key) == key = <<>> \/ key[1] = ""

\* not api_key or api_key == "your_openai_api_key_here" (line 149)
IsBadKey(key) == key = <<>> \/ key[1] = "" \/ key[1] = PLACEHOLDER_KEY

\* the service answers only a usable key; any call may fail
ServiceOutcomes(key) ==
    IF IsBadKey(key) THEN ServiceFailures ELSE ServiceFailures \cup ServiceSuccesses

APOLOGY == "I apologize, but I'm having trouble connecting to my knowledge base. Error: "

\* lines 84-100 with the service having done o, the except clause re-raising
get_openai_response_reraise(user_question, key, o) ==
    IF o.ok THEN [raised |-> FALSE, value |-> o.text]
    ELSE [raised |-> TRUE, value |-> o.text]

\* lines 84-100 with the apology leaving the error text out
get_openai_response_no_detail(user_question, key, o) ==
    IF o.ok THEN [raised |-> FALSE, value |-> o.text]
    ELSE [raised |-> FALSE, value |-> APOLOGY]

\* lines 84-100 with the service having done o: raised tells whether an
\* exception leaves the function, value is what it returns otherwise
get_openai_response(user_question, key, o) ==
    IF o.ok THEN [raised |-> FALSE, value |-> o.text]
    ELSE [raised |-> FALSE, value |-> APOLOGY \o o.text]

\* f"predefined (match: {score:.0f}%)" (line 121)
PredefinedSource(score) ==
    "predefined (match: " \o ToString(FormatScore(score)) \o "%)"

----------------------------------------------------------------------------
\* State

VARIABLES
    PREDEFINED_QA,   \* the module global of that name
    FUZZY_THRESHOLD, \* the module global of that name
    pc,              \* where the running call or script run stands
    user_question,   \* get_agent_response's parameter
    api_key,         \* get_agent_response's parameter; main's local
    match_result,    \* get_agent_response's local: None or <<answer, score>>
    scorer_calls,    \* scorer calls made by the running call
    openai_calls,    \* outbound service calls made by the running call
    outcome,         \* what the service did in the running call, if called
    response,        \* None, or the record get_agent_response returns
    remembered,      \* None, or one earlier call: [query, outcome, response]
    env_key,         \* the process environment's OPENAI_API_KEY
    session_state,   \* None ("messages" not in st.session_state) or <<messages>>
    user_input,      \* None or <<text>>: the chat input of this script run
    clear_clicked,   \* the Clear Chat History button's value in this run
    before           \* the messages when the running interaction began

globals == <<PREDEFINED_QA, FUZZY_THRESHOLD>>
locals == <<user_question, api_key, match_result, scorer_calls, openai_calls,
            outcome, response>>
app == <<env_key, session_state, user_input, clear_clicked, before>>
vars == <<globals, pc, locals, remembered, app>>

\* the locals of a call that is not running
NoCall ==
    /\ user_question = <<>>
    /\ api_key = <<>>
    /\ match_result = <<>>
    /\ scorer_calls = 0
    /\ openai_calls = 0
    /\ outcome = <<>>
    /\ response = <<>>

\* the module's state after import (lines 8-35), nothing running
Imported ==
    /\ PREDEFINED_QA = InitialQA
    /\ FUZZY_THRESHOLD = 70
    /\ pc = "idle"
    /\ NoCall
    /\ remembered = <<>>
    /\ session_state = <<>>
    /\ user_input = <<>>
    /\ clear_clicked = FALSE
    /\ before = <<>>

\* get_agent_response takes the credential as a parameter and reads no
\* environment: direct calls are modelled with the variable unset
Init == Imported /\ env_key = <<>>

\* the application starts with any value of OPENAI_API_KEY
InitApp == Imported /\ env_key \in Credentials

----------------------------------------------------------------------------
\* get_agent_response (src/app.py:103-129), one action per step

\* a caller enters get_agent_response(q, k)
Enter(q, k) ==
    /\ user_question' = q
    /\ api_key' = k
    /\ match_result' = <<>>
    /\ scorer_calls' = 0
    /\ openai_calls' = 0
    /\ outcome' = <<>>
    /\ response' = <<>>
    /\ pc' = "match"

\* a direct call of the core's public operation, any query and credential
CallGetAgentResponse ==
    /\ pc = "idle"
    /\ \E q \in Queries, k \in Credentials : Enter(q, k)
    /\ UNCHANGED <<globals, remembered, app>>

\* line 115 with a matcher that takes the entry it matched out of the corpus
FindBestMatchConsuming ==
    /\ pc = "match"
    /\ \E m \in {find_best_match(user_question, PREDEFINED_QA, FUZZY_THRESHOLD)} :
          /\ match_result' = m.value
          /\ scorer_calls' = m.scored
          /\ PREDEFINED_QA' =
                IF m.value = <<>> THEN PREDEFINED_QA
                ELSE SelectSeq(PREDEFINED_QA, LAMBDA e : e.answer # m.value[1])
    /\ pc' = "branch"
    /\ UNCHANGED <<FUZZY_THRESHOLD, user_question, api_key, openai_calls, outcome,
                   response, remembered, app>>

\* line 115: match_result = find_best_match(user_question)
FindBestMatch ==
    /\ pc = "match"
    /\ \E m \in {find_best_match(user_question, PREDEFINED_QA, FUZZY_THRESHOLD)} :
          /\ match_result' = m.value
          /\ scorer_calls' = m.scored
    /\ pc' = "branch"
    /\ UNCHANGED <<globals, user_question, api_key, openai_calls, outcome,
                   response, remembered, app>>

\* lines 117-122: the matcher accepted
ReturnPredefined ==
    /\ pc = "branch"
    /\ match_result # <<>>
    /\ response' = <<[answer |-> match_result[1],
                      source |-> PredefinedSource(match_result[2])]>>
    /\ pc' = "return"
    /\ UNCHANGED <<globals, user_question, api_key, match_result, scorer_calls,
                   openai_calls, outcome, remembered, app>>

\* lines 124-129 with a second service call after a failed one
FallbackToOpenAIRetry ==
    /\ pc = "branch"
    /\ match_result = <<>>
    /\ \E o \in ServiceOutcomes(api_key) :
          \E r \in {get_openai_response(user_question, api_key, o)} :
             /\ outcome' = <<o>>
             /\ openai_calls' = IF o.ok THEN openai_calls + 1 ELSE openai_calls + 2
             /\ response' = <<[answer |-> r.value, source |-> "OpenAI"]>>
             /\ pc' = "return"
    /\ UNCHANGED <<globals, user_question, api_key, match_result, scorer_calls,
                   remembered, app>>

\* lines 124-129: the matcher rejected; one service call, whose failure
\* get_openai_response turns into a string
FallbackToOpenAI ==
    /\ pc = "branch"
    /\ match_result = <<>>
    /\ \E o \in ServiceOutcomes(api_key) :
          \E r \in {get_openai_response(user_question, api_key, o)} :
             /\ outcome' = <<o>>
             /\ openai_calls' = openai_calls + 1
             /\ IF r.raised
                THEN /\ pc' = "raised"
                     /\ response' = <<>>
                ELSE /\ pc' = "return"
                     /\ response' = <<[answer |-> r.value, source |-> "OpenAI"]>>
    /\ UNCHANGED <<globals, user_question, api_key, match_result, scorer_calls,
                   remembered, app>>

\* the locals of a finished call are gone
ResetLocals ==
    /\ user_question' = <<>>
    /\ api_key' = <<>>
    /\ match_result' = <<>>
    /\ scorer_calls' = 0
    /\ openai_calls' = 0
    /\ outcome' = <<>>
    /\ response' = <<>>

\* the direct caller takes the result; the call may be the one remembered
\* for comparison with a later call
ReturnToCaller ==
    /\ pc = "return"
    /\ \/ UNCHANGED remembered
       \/ /\ remembered = <<>>
          /\ remembered' = <<[query |-> user_question, outcome |-> outcome,
                              response |-> response[1]]>>
    /\ ResetLocals
    /\ pc' = "idle"
    /\ UNCHANGED <<globals, app>>

----------------------------------------------------------------------------
\* main (src/app.py:132-227): one Streamlit script run, one action per step

\* " ".join(pieces) as text, for display and for the chat history
RECURSIVE Text(_)
Text(s) ==
    IF s = <<>> THEN ""
    ELSE IF Len(s) = 1 THEN s[1]
    ELSE s[1] \o " " \o Text(Tail(s))

WELCOME ==
    [role |-> "assistant",
     content |-> "Hello! I'm here to help you learn about Thoughtful AI's automation agents. You can ask me about EVA, CAM, PHIL, or any general questions you might have!",
     source |-> <<>>]

CLEARED ==
    [role |-> "assistant", content |-> "Chat cleared! How can I help you?",
     source |-> <<>>]

\* lines 179-183
UserMessage(text) == [role |-> "user", content |-> Text(text), source |-> <<>>]

\* lines 198-202
AssistantMessage(r) ==
    [role |-> "assistant", content |-> r.answer, source |-> <<r.source>>]

\* the questions asked in the history so far
Turns(messages) ==
    Cardinality({i \in 1..Len(messages) : messages[i].role = "user"})

Messages == IF session_state = <<>> THEN <<>> ELSE session_state[1]

\* Streamlit runs the script from the top: on page load, when a chat input
\* is submitted (line 172's widget) or when the button is clicked (line
\* 221's widget).  At most MaxTurns questions are asked per history.
StartRun ==
    /\ pc \in {"idle", "stopped"}
    /\ \/ /\ user_input' = <<>>
          /\ clear_clicked' \in BOOLEAN
       \/ /\ \E q \in Queries :
                /\ IsBlankQuery(q) \/ Turns(Messages) < MaxTurns
                /\ user_input' = <<q>>
          /\ clear_clicked' = FALSE
    /\ pc' = "check_key"
    /\ UNCHANGED <<globals, locals, remembered, env_key, session_state, before>>

\* lines 147-152: st.stop() ends the run when the key is missing
CheckKey ==
    /\ pc = "check_key"
    /\ IF IsBadKey(env_key)
       THEN pc' = "stopped"
       ELSE pc' = "init_history"
    /\ UNCHANGED <<globals, locals, remembered, app>>

\* lines 155-162 (lines 165-169 only display)
InitHistory ==
    /\ pc = "init_history"
    /\ session_state' = IF session_state = <<>> THEN << <<WELCOME>> >> ELSE session_state
    /\ pc' = "chat_input"
    /\ UNCHANGED <<globals, locals, remembered, env_key, user_input, clear_clicked,
                   before>>

\* the end of a script run: its locals and widget values are gone
EndRun ==
    /\ ResetLocals
    /\ user_input' = <<>>
    /\ clear_clicked' = FALSE
    /\ before' = <<>>

\* lines 172-192: nothing submitted, a blank submission, or a question,
\* which is appended to the history before get_agent_response is entered
ChatInput ==
    /\ pc = "chat_input"
    /\ IF user_input = <<>> \/ IsEmptyStr(user_input[1])
       THEN /\ pc' = "sidebar"
            /\ UNCHANGED <<locals, session_state, user_input, clear_clicked, before>>
       ELSE IF IsBlankAfterStrip(user_input[1])
       THEN /\ pc' = "idle"
            /\ EndRun
            /\ UNCHANGED session_state
       ELSE /\ session_state' = <<Append(session_state[1], UserMessage(user_input[1]))>>
            /\ before' = session_state[1]
            /\ Enter(user_input[1], env_key)
            /\ UNCHANGED <<user_input, clear_clicked>>
    /\ UNCHANGED <<globals, remembered, env_key>>

\* lines 194-202 without the append
AppendAssistantDropped ==
    /\ pc = "return"
    /\ pc' = "sidebar"
    /\ UNCHANGED <<globals, locals, remembered, app>>

\* lines 194-202: the answer is displayed and appended to the history
AppendAssistant ==
    /\ pc = "return"
    /\ session_state' = <<Append(session_state[1], AssistantMessage(response[1]))>>
    /\ pc' = "sidebar"
    /\ UNCHANGED <<globals, locals, remembered, env_key, user_input, clear_clicked,
                   before>>

\* lines 205-227: the button clears the history and st.rerun() starts the
\* script again; otherwise the run ends
Sidebar ==
    /\ pc = "sidebar"
    /\ IF clear_clicked
       THEN /\ session_state' = << <<CLEARED>> >>
            /\ pc' = "check_key"
       ELSE /\ pc' = "idle"
            /\ UNCHANGED session_state
    /\ EndRun
    /\ UNCHANGED <<globals, remembered, env_key>>

Next ==
    \/ CallGetAgentResponse
    \/ FindBestMatch
    \/ ReturnPredefined
    \/ FallbackToOpenAI
    \/ ReturnToCaller

\* calls of get_agent_response, one after another
Spec == Init /\ [][Next]_vars

NextApp ==
    \/ StartRun
    \/ CheckKey
    \/ InitHistory
    \/ ChatInput
    \/ FindBestMatch
    \/ ReturnPredefined
    \/ FallbackToOpenAI
    \/ AppendAssistant
    \/ Sidebar

\* the application: script runs of main, one after another
SpecApp == InitApp /\ [][NextApp]_vars

----------------------------------------------------------------------------
\* What the claims speak of

\* the score of query q against the i-th entry of the corpus as written
ScoreAgainst(q, i) == scorer(q, InitialQA[i].question)

\* entry i scores highest for q
IsBest(q, i) == \A j \in 1..Len(InitialQA) : RatGeq(ScoreAgainst(q, i), ScoreAgainst(q, j))

\* the first entry, in corpus order, that scores highest for q
FirstBest(q) ==
    CHOOSE i \in 1..Len(InitialQA) : IsBest(q, i) /\ \A j \in 1..(i - 1) : ~IsBest(q, j)

BestScore(q) == ScoreAgainst(q, FirstBest(q))

\* q is empty or holds only whitespace
Blank(q) == \A i \in 1..Len(q) : q[i] = ""

\* every source tag of the form "predefined (match: N%)"
PredefinedTags == {"predefined (match: " \o ToString(n) \o "%)" : n \in 0..100}

\* a call of get_agent_response is under way or has just returned
InCall == pc \in {"match", "branch", "return"}

\* the service call of the running call failed
ServiceFailed == outcome # <<>> /\ ~outcome[1].ok

\* C1: get_agent_response is total: for every query (empty and
\* whitespace-only included) and every outcome of the service call, no
\* exception leaves it, every step of it can be taken, and it returns a
\* record with exactly the fields answer and source.
C1_Total ==
    /\ pc # "raised"
    /\ pc \in {"match", "branch"} =>
          ENABLED (FindBestMatch \/ ReturnPredefined \/ FallbackToOpenAI)
    /\ pc = "return" =>
          /\ response # <<>>
          /\ DOMAIN response[1] = {"answer", "source"}

C1_Witness ==
    /\ pc = "return"
    /\ user_question = <<"", "">>
    /\ ServiceFailed
    /\ DOMAIN response[1] = {"answer", "source"}

\* C2: when the matcher rejects the query and the service call fails, the
\* call returns the source "OpenAI" and a non-empty answer made of the
\* apology followed by the error text; the failure never leaves the call.
C2_FailSoft ==
    /\ pc # "raised"
    /\ (pc = "return" /\ ServiceFailed) =>
          /\ match_result = <<>>
          /\ response[1].source = "OpenAI"
          /\ response[1].answer # ""
          /\ response[1].answer = APOLOGY \o outcome[1].text

C2_Witness ==
    /\ pc = "return"
    /\ ServiceFailed
    /\ outcome[1].text = "Incorrect API key provided."
    /\ response[1].source = "OpenAI"

C4_ExactMatch ==
    \A i \in 1..Len(InitialQA) :
        (pc = "return" /\ user_question = InitialQA[i].question) =>
            /\ response[1].answer = InitialQA[i].answer
            /\ match_result # <<>>
            /\ match_result[2] = RatOfInt(100)
            /\ response[1].source = "predefined (match: 100%)"

C4_Witness ==
    /\ pc = "return"
    /\ user_question = InitialQA[5].question
    /\ response[1].answer = InitialQA[5].answer

\* C5: for an empty or whitespace-only query find_best_match returns None
\* without a single scorer call.
C5_BlankNoMatch ==
    (pc \in {"branch", "return"} /\ Blank(user_question)) =>
        /\ match_result = <<>>
        /\ scorer_calls = 0

C5_Witness ==
    /\ pc = "branch"
    /\ user_question = <<"", "">>
    /\ match_result = <<>>

\* C6: within a call the matcher has finished before the service is
\* called, the service is called only after a rejection, never after an
\* acceptance, and at most once.
C6_MatcherFirst ==
    /\ openai_calls <= 1
    /\ pc \in {"match", "branch"} => (openai_calls = 0 /\ outcome = <<>>)
    /\ openai_calls > 0 => (pc = "return" /\ match_result = <<>>)
    /\ match_result # <<>> => (openai_calls = 0 /\ outcome = <<>>)

C6_Witness ==
    /\ pc = "return"
    /\ openai_calls = 1
    /\ ServiceFailed
    /\ ~Blank(user_question)

\* C7: a call with the same query as an earlier one, the service doing the
\* same in both, returns the same answer and source as the earlier one and
\* takes the same path; the corpus and the threshold are what they were at
\* the start.
C7_Deterministic ==
    /\ PREDEFINED_QA = InitialQA
    /\ FUZZY_THRESHOLD = 70
    /\ (pc = "return" /\ remembered # <<>> /\ remembered[1].query = user_question) =>
          /\ (remembered[1].outcome = <<>>) <=> (outcome = <<>>)
          /\ remembered[1].outcome = outcome => remembered[1].response = response[1]

C7_Witness ==
    /\ pc = "return"
    /\ remembered # <<>>
    /\ remembered[1].query = user_question
    /\ remembered[1].outcome = <<>>
    /\ remembered[1].response = response[1]

\* C8: in a run of the application with OPENAI_API_KEY absent, empty or the
\* placeholder, the run stops at the credential check: get_agent_response
\* is not entered, the history is not touched and no service call is made.
C8_KeyFirst ==
    env_key \in {<<>>, <<"">>, <<"your_openai_api_key_here">>} =>
        /\ pc \in {"idle", "check_key", "stopped"}
        /\ session_state = <<>>
        /\ NoCall

C8_Witness ==
    /\ env_key = <<"your_openai_api_key_here">>
    /\ pc = "stopped"
    /\ user_input = << <<"weather">> >>
    /\ session_state = <<>>

\* C9: what find_best_match returns is the answer and score of the
\* highest-scoring corpus question, the first one in corpus order when
\* several share the highest score.
C9_FirstBest ==
    (pc \in {"branch", "return"} /\ match_result # <<>>) =>
        /\ match_result[1] = InitialQA[FirstBest(user_question)].answer
        /\ match_result[2] = BestScore(user_question)

\* the highest score is shared, below 100, and its first entry is not the
\* first of the corpus
C9_Witness ==
    /\ pc = "branch"
    /\ match_result # <<>>
    /\ Cardinality({i \in 1..Len(InitialQA) : IsBest(user_question, i)}) > 1
    /\ FirstBest(user_question) > 1
    /\ match_result[2] # RatOfInt(100)
    /\ match_result[1] = InitialQA[FirstBest(user_question)].answer

\* every user message of the history is followed by an assistant message
\* that carries a source
Paired(messages) ==
    \A i \in 1..Len(messages) :
        messages[i].role = "user" =>
            /\ i < Len(messages)
            /\ messages[i + 1].role = "assistant"
            /\ messages[i + 1].source # <<>>

====
